---- MODULE Spec2Model ----
(***************************************************************************)
(* Keychain interpreter of qutebrowser: CommandKeyParser                   *)
(* (src/qutebrowser/commands/keys.py) on top of its base class KeyParser   *)
(* (qutebrowser.utils.keyparser, not part of src/: its accumulator is      *)
(* modelled from spec.md section 4.2) and the external command executor    *)
(* CommandParser (modelled from spec.md sections 4.3 and 6).               *)
(*                                                                         *)
(* Strings that are inspected character by character (key texts,           *)
(* keystrings, key-specs) are sequences of one-character strings.  Command *)
(* strings are atomic; a status-line text is the sequence of the pieces    *)
(* that the code concatenates.                                             *)
(***************************************************************************)
EXTENDS Integers, Sequences, FiniteSets, TLC

VARIABLES
    _keystring,         \* self._keystring: the keys typed so far
    count,              \* the pending count of the base class (spec.md 3)
    _bindings,          \* self._bindings: plain table, keystring -> command
    _modifier_bindings, \* self._modifier_bindings: modifier table
    config,             \* config.instance['keybind']: ordered (key, cmd) pairs
    reloads,            \* number of reloads after construction (bounded)
    last                \* what the most recent operation was given and did

vars == <<_keystring, count, _bindings, _modifier_bindings, config, reloads, last>>

----------------------------------------------------------------------------
(* Bounds *)

\* largest pending count the model lets the user type
MaxCount == 12
\* number of reloads (read_config calls) after construction
MaxReloads == 1

----------------------------------------------------------------------------
(* Program constants and input alphabets *)

\* STARTCHARS = ":/?"
STARTCHARS == <<":", "/", "?">>

NoCount == -1
EmptyStr == <<>>
EmptyTable == [k \in {} |-> "none"]

DigitValue == [d \in {"1", "2"} |-> IF d = "1" THEN 1 ELSE 2]
Digits == DOMAIN DigitValue

\* texts of the single (non-modifier) keypress events the model delivers
KeyTexts == {<<"g">>, <<"x">>, <<":">>, <<"/">>, <<"?">>, <<" ">>, <<"1">>, <<"2">>}

\* normalized texts of the modifier chords the model delivers
ChordTexts == {<<"C", "+", "a">>, <<"C", "+", "g">>}

Commands == {"scroll-top-partial", "scroll-top", "open"}

\* outcomes of the external command executor (spec.md section 6)
Outcomes == {"success", "unknown-command", "argument-count-mismatch", "other-failure"}

Sections == {"keybind", "general"}
Options == {"gg", "auto_save"}

\* the contents of the 'keybind' section that the model lets the user configure
CfgChain == << <<(<<"g">>), "scroll-top-partial">>, <<(<<"g", "g">>), "scroll-top">> >>
CfgStart == << <<(<<"g", ":">>), "open">>, <<(<<":">>), "scroll-top">> >>
CfgMod == << <<(<<"@", "c", "-", "a", "@">>), "open">>,
             <<(<<"@", "@", "C", "+", "a", "@", "@">>), "scroll-top">> >>
CfgMixed == << <<(<<"@", "g", "@">>), "scroll-top">>, <<(<<"g", "g">>), "open">> >>
CfgBare == << <<(<<"@">>), "open">>, <<(<<"g">>), "open">> >>
CfgPlainChord == << <<(<<"C", "+", "g">>), "open">> >>
CfgEmpty == <<>>

Configs == {CfgChain, CfgStart, CfgMod, CfgMixed, CfgBare, CfgPlainChord, CfgEmpty}

----------------------------------------------------------------------------
(* String helpers *)

Last(s) == s[Len(s)]
Front(s) == SubSeq(s, 1, Len(s) - 1)

\* str.startswith / str.endswith with a one-character argument
StartsWith(s, c) == Len(s) > 0 /\ s[1] = c
EndsWith(s, c) == Len(s) > 0 /\ Last(s) = c

RECURSIVE LStripChars(_, _)
LStripChars(s, cs) ==
    IF Len(s) > 0 /\ s[1] \in cs THEN LStripChars(Tail(s), cs) ELSE s

RECURSIVE RStripChars(_, _)
RStripChars(s, cs) ==
    IF Len(s) > 0 /\ Last(s) \in cs THEN RStripChars(Front(s), cs) ELSE s

\* str.strip(chars): drops every leading and trailing character of cs
StripChars(s, cs) == RStripChars(LStripChars(s, cs), cs)

\* str.strip(): drops leading and trailing whitespace
Strip(s) == StripChars(s, {" "})

\* s is a proper prefix of t
IsStrictPrefix(s, t) == Len(s) < Len(t) /\ SubSeq(t, 1, Len(s)) = s

\* KeyParser._normalize_keystr: canonical modifier-key notation
NormalizeChar(c) == IF c = "c" THEN "C" ELSE IF c = "-" THEN "+" ELSE c
_normalize_keystr(keystr) == [i \in 1..Len(keystr) |-> NormalizeChar(keystr[i])]

\* d[k] = v on a dict
Put(d, k, v) == [x \in (DOMAIN d) \cup {k} |-> IF x = k THEN v ELSE d[x]]

----------------------------------------------------------------------------
(* Dispatch Policy: CommandKeyParser._run_or_fill and execute *)

\* class attribute supports_count = True
supports_count == TRUE

NoOutput == [calls |-> <<>>, emitted |-> <<>>, error |-> "none"]

\* self.commandparser.run(cmdstr, count=count, ignore_exc=ignore_exc): the
\* external executor; outcome is what it reports for this call
CommandParser_run(cmdstr, cnt, ignore_exc, outcome) ==
    [cmd |-> cmdstr, count |-> cnt, ignore_exc |-> ignore_exc, outcome |-> outcome]

\* ':{} '.format(cmdstr)
FillText(cmdstr) == <<":", cmdstr, " ">>

\* mutant: the count is not handed to the executor
_run_or_fill_nocount(cmdstr, cnt, ignore_exc, outcome) ==
    LET call == CommandParser_run(cmdstr, NoCount, ignore_exc, outcome) IN
    [calls |-> <<call>>,
     emitted |-> IF outcome = "argument-count-mismatch" THEN <<FillText(cmdstr)>> ELSE <<>>,
     error |-> IF outcome = "other-failure" THEN outcome ELSE "none"]

\* mutant: a bare except passes over every failure of the executor
_run_or_fill_swallow(cmdstr, cnt, ignore_exc, outcome) ==
    [calls |-> <<CommandParser_run(cmdstr, cnt, ignore_exc, outcome)>>,
     emitted |-> IF outcome = "argument-count-mismatch" THEN <<FillText(cmdstr)>> ELSE <<>>,
     error |-> "none"]

\* mutant: the partial command is filled in without the trailing space
_run_or_fill_nospace(cmdstr, cnt, ignore_exc, outcome) ==
    [calls |-> <<CommandParser_run(cmdstr, cnt, ignore_exc, outcome)>>,
     emitted |-> IF outcome = "argument-count-mismatch" THEN << <<":", cmdstr>> >> ELSE <<>>,
     error |-> IF outcome = "other-failure" THEN outcome ELSE "none"]

\* _run_or_fill: NoSuchCommandError is passed over, ArgumentCountError fills
\* the statusbar, anything else leaves the try statement uncaught
_run_or_fill(cmdstr, cnt, ignore_exc, outcome) ==
    LET call == CommandParser_run(cmdstr, cnt, ignore_exc, outcome) IN
    IF outcome = "unknown-command"
    THEN [calls |-> <<call>>, emitted |-> <<>>, error |-> "none"]
    ELSE IF outcome = "argument-count-mismatch"
    THEN [calls |-> <<call>>, emitted |-> <<FillText(cmdstr)>>, error |-> "none"]
    ELSE IF outcome = "success"
    THEN [calls |-> <<call>>, emitted |-> <<>>, error |-> "none"]
    ELSE [calls |-> <<call>>, emitted |-> <<>>, error |-> outcome]

\* mutant: the count is not passed on
execute_dropcount(cmdstr, cnt, outcome) == _run_or_fill(cmdstr, NoCount, FALSE, outcome)

\* mutant: the completed keychain is not run
execute_noop(cmdstr, cnt, outcome) == NoOutput

\* execute: "Handle a completed keychain"
execute(cmdstr, cnt, outcome) == _run_or_fill(cmdstr, cnt, FALSE, outcome)

----------------------------------------------------------------------------
(* Keychain Accumulator: KeyParser._handle_single_key (spec.md 4.2) *)

IsDigitText(text) == Len(text) = 1 /\ text[1] \in Digits

AppendDigit(cnt, text) ==
    IF cnt = NoCount THEN DigitValue[text[1]] ELSE 10 * cnt + DigitValue[text[1]]

Idle(out) ==
    [keystring |-> EmptyStr, count |-> NoCount,
     calls |-> out.calls, emitted |-> out.emitted, error |-> out.error]

Pending(ks, cnt) ==
    [keystring |-> ks, count |-> cnt,
     calls |-> <<>>, emitted |-> <<>>, error |-> "none"]

HasExactMatch(table, ks) == ks \in DOMAIN table
HasPrefixMatch(table, ks) == \E k \in DOMAIN table : IsStrictPrefix(ks, k)

\* steps 2 and 3 of the transition: a bare digit goes to the count; any other
\* text is appended and looked up: exact match, then strict prefix, then dead end
KeyParser_handle_single_key(text, ks, cnt, table, outcome) ==
    IF supports_count /\ IsDigitText(text)
    THEN Pending(ks, AppendDigit(cnt, text))
    ELSE LET new == ks \o text IN
         IF HasExactMatch(table, new)
         THEN Idle(execute(table[new], cnt, outcome))
         ELSE IF HasPrefixMatch(table, new)
         THEN Pending(new, cnt)
         ELSE Idle(NoOutput)

\* a chord is one modifier keystring, matched against the modifier table only
KeyParser_handle_modifier_key(chord, cnt, mtable, outcome) ==
    IF HasExactMatch(mtable, chord)
    THEN Idle(execute(mtable[chord], cnt, outcome))
    ELSE Idle(NoOutput)

----------------------------------------------------------------------------
(* Startchar Interceptor: CommandKeyParser._handle_single_key *)

\* mutant: 'or' in place of 'and'
IsStartchar_or(ks, txt) ==
    ks = EmptyStr \/ \E i \in 1..Len(STARTCHARS) : txt = <<STARTCHARS[i]>>

\* mutant: the test of self._keystring is missing
IsStartchar_always(ks, txt) ==
    \E i \in 1..Len(STARTCHARS) : txt = <<STARTCHARS[i]>>

\* not self._keystring and any(txt == c for c in STARTCHARS)
IsStartchar(ks, txt) ==
    ks = EmptyStr /\ \E i \in 1..Len(STARTCHARS) : txt = <<STARTCHARS[i]>>

\* mutant: the text is emitted for every key, not only for a startchar
_handle_single_key_echo(text, ks, cnt, table, outcome) ==
    LET r == KeyParser_handle_single_key(text, ks, cnt, table, outcome) IN
    IF IsStartchar(ks, Strip(text))
    THEN [keystring |-> ks, count |-> cnt,
          calls |-> <<>>, emitted |-> <<Strip(text)>>, error |-> "none"]
    ELSE [r EXCEPT !.emitted = <<Strip(text)>> \o @]

\* mutant: the intercepted startchar also clears the pending count
_handle_single_key_clear(text, ks, cnt, table, outcome) ==
    IF IsStartchar(ks, Strip(text))
    THEN [keystring |-> ks, count |-> NoCount,
          calls |-> <<>>, emitted |-> <<Strip(text)>>, error |-> "none"]
    ELSE KeyParser_handle_single_key(text, ks, cnt, table, outcome)

\* mutant: the emitted startchar is also kept in self._keystring
_handle_single_key_keep(text, ks, cnt, table, outcome) ==
    IF IsStartchar(ks, Strip(text))
    THEN [keystring |-> ks \o Strip(text), count |-> cnt,
          calls |-> <<>>, emitted |-> <<Strip(text)>>, error |-> "none"]
    ELSE KeyParser_handle_single_key(text, ks, cnt, table, outcome)

\* mutant: the return after the emit is missing
_handle_single_key_noreturn(text, ks, cnt, table, outcome) ==
    LET r == KeyParser_handle_single_key(text, ks, cnt, table, outcome) IN
    IF IsStartchar(ks, Strip(text))
    THEN [r EXCEPT !.emitted = <<Strip(text)>> \o @]
    ELSE r

\* _handle_single_key: a startchar arriving on an empty keystring is emitted
\* and the event is dropped; every other event goes to the base class
_handle_single_key(text, ks, cnt, table, outcome) ==
    LET txt == Strip(text) IN
    IF IsStartchar(ks, txt)
    THEN [keystring |-> ks, count |-> cnt,
          calls |-> <<>>, emitted |-> <<txt>>, error |-> "none"]
    ELSE KeyParser_handle_single_key(text, ks, cnt, table, outcome)

----------------------------------------------------------------------------
(* Binding Table: CommandKeyParser.read_config and on_config_changed *)

\* key.startswith('@') and key.endswith('@')
IsModifierSpec(key) == StartsWith(key, "@") /\ EndsWith(key, "@")

\* mutant: a key that is already bound keeps its old command
RegisterKey_keepold(key, cmd, tables) ==
    LET keystr == _normalize_keystr(StripChars(key, {"@"})) IN
    IF IsModifierSpec(key)
    THEN [b |-> tables.b,
          m |-> IF keystr \in DOMAIN tables.m THEN tables.m ELSE Put(tables.m, keystr, cmd)]
    ELSE [b |-> IF key \in DOMAIN tables.b THEN tables.b ELSE Put(tables.b, key, cmd),
          m |-> tables.m]

\* mutant: a modifier spec is registered in self._bindings
RegisterKey_wrongtable(key, cmd, tables) ==
    IF IsModifierSpec(key)
    THEN [b |-> Put(tables.b, _normalize_keystr(StripChars(key, {"@"})), cmd), m |-> tables.m]
    ELSE [b |-> Put(tables.b, key, cmd), m |-> tables.m]

\* mutant: a key that is already bound is unbound instead of rebound
RegisterKey_unbind(key, cmd, tables) ==
    LET Drop(d, k) == [x \in (DOMAIN d) \ {k} |-> d[x]]
        keystr == _normalize_keystr(StripChars(key, {"@"})) IN
    IF IsModifierSpec(key)
    THEN [b |-> tables.b,
          m |-> IF keystr \in DOMAIN tables.m
                THEN Drop(tables.m, keystr) ELSE Put(tables.m, keystr, cmd)]
    ELSE [b |-> IF key \in DOMAIN tables.b
                THEN Drop(tables.b, key) ELSE Put(tables.b, key, cmd),
          m |-> tables.m]

\* mutant: the else is missing, a modifier spec is also registered as a plain key
RegisterKey_noelse(key, cmd, tables) ==
    [b |-> Put(tables.b, key, cmd),
     m |-> IF IsModifierSpec(key)
           THEN Put(tables.m, _normalize_keystr(StripChars(key, {"@"})), cmd)
           ELSE tables.m]

\* the body of the loop over sect.items()
RegisterKey(key, cmd, tables) ==
    IF IsModifierSpec(key)
    THEN LET keystr == _normalize_keystr(StripChars(key, {"@"})) IN
         [b |-> tables.b, m |-> Put(tables.m, keystr, cmd)]
    ELSE [b |-> Put(tables.b, key, cmd), m |-> tables.m]

RECURSIVE RegisterAll(_, _)
RegisterAll(items, tables) ==
    IF items = <<>> THEN tables
    ELSE RegisterAll(Tail(items), RegisterKey(items[1][1], items[1][2], tables))

\* read_config: warns when the section is empty, then registers every item
\* into the tables the parser already holds
read_config(sect, tables) ==
    LET t == RegisterAll(sect, tables) IN
    [b |-> t.b, m |-> t.m, warned |-> IF Len(sect) = 0 THEN 1 ELSE 0]

\* mutant: the test of the section is missing
on_config_changed_always(section, option, sect, tables) == read_config(sect, tables)

\* on_config_changed: re-read only for section 'keybind'
on_config_changed(section, option, sect, tables) ==
    IF section = "keybind"
    THEN read_config(sect, tables)
    ELSE [b |-> tables.b, m |-> tables.m, warned |-> 0]

----------------------------------------------------------------------------
(* The state machine *)

Tables == [b |-> _bindings, m |-> _modifier_bindings]

\* the commands handed to the executor, in call order
Cmds(calls) == [i \in 1..Len(calls) |-> calls[i].cmd]

NoTables == [b |-> EmptyTable, m |-> EmptyTable]

\* the tables an operation started from
TablesBefore(op) == Tables

NoPrior ==
    [op |-> "none", key |-> EmptyStr, prevKeystring |-> EmptyStr,
     prevCount |-> NoCount, cmds |-> <<>>]

\* the operation before this one: a keypress with what it was given and
\* dispatched, a reload, or anything else
Prior ==
    IF last.op = "key"
    THEN [op |-> last.op, key |-> last.key,
          prevKeystring |-> last.prevKeystring, prevCount |-> last.prevCount,
          cmds |-> Cmds(last.calls)]
    ELSE IF last.op = "read_config" \/ (last.op = "on_config_changed" /\ last.section = "keybind")
    THEN [NoPrior EXCEPT !.op = "reload"]
    ELSE NoPrior

Record(op, key, section, option, calls, emitted, error, warned) ==
    [op |-> op, key |-> key, section |-> section, option |-> option,
     prevKeystring |-> _keystring, prevCount |-> count,
     prevTables |-> TablesBefore(op),
     calls |-> calls, emitted |-> emitted, error |-> error, warned |-> warned,
     prior |-> Prior]

\* __init__: KeyParser.__init__ creates the empty state, then read_config()
Init ==
    \E cfg \in Configs :
        LET r == read_config(cfg, NoTables) IN
        /\ _keystring = EmptyStr
        /\ count = NoCount
        /\ _bindings = r.b
        /\ _modifier_bindings = r.m
        /\ config = cfg
        /\ reloads = 0
        /\ last = [op |-> "init", key |-> EmptyStr, section |-> "", option |-> "",
                   prevKeystring |-> EmptyStr, prevCount |-> NoCount,
                   calls |-> <<>>, emitted |-> <<>>, error |-> "none",
                   warned |-> r.warned,
                   prevTables |-> NoTables,
                   prior |-> NoPrior]

\* the executor reports an outcome only when it is called
OutcomesFor(called) == IF called THEN Outcomes ELSE {"success"}

\* the keypress reaches the accumulator and completes a bound keystring
Dispatches(text, ks, table) ==
    /\ ~IsStartchar(ks, Strip(text))
    /\ ~(supports_count /\ IsDigitText(text))
    /\ HasExactMatch(table, ks \o text)

\* a keypress without modifier is delivered to _handle_single_key
HandleSingleKey ==
    \E text \in KeyTexts :
      \E outcome \in OutcomesFor(Dispatches(text, _keystring, _bindings)) :
        /\ IsDigitText(text) => AppendDigit(count, text) <= MaxCount
        /\ LET r == _handle_single_key(text, _keystring, count, _bindings, outcome) IN
           /\ _keystring' = r.keystring
           /\ count' = r.count
           /\ last' = Record("key", text, "", "", r.calls, r.emitted, r.error, 0)
        /\ UNCHANGED <<_bindings, _modifier_bindings, config, reloads>>

\* a keypress with a modifier is matched as a chord
HandleModifierKey ==
    \E chord \in ChordTexts :
      \E outcome \in OutcomesFor(HasExactMatch(_modifier_bindings, chord)) :
        /\ LET r == KeyParser_handle_modifier_key(chord, count, _modifier_bindings, outcome) IN
           /\ _keystring' = r.keystring
           /\ count' = r.count
           /\ last' = Record("modkey", chord, "", "", r.calls, r.emitted, r.error, 0)
        /\ UNCHANGED <<_bindings, _modifier_bindings, config, reloads>>

\* the configuration store changes an option and notifies the parser
ConfigChanged ==
    \E section \in Sections, option \in Options :
      \E cfg \in (IF section = "keybind" THEN Configs ELSE {config}) :
        /\ section = "keybind" => reloads < MaxReloads
        /\ config' = IF section = "keybind" THEN cfg ELSE config
        /\ LET r == on_config_changed(section, option, config', Tables) IN
           /\ _bindings' = r.b
           /\ _modifier_bindings' = r.m
           /\ last' = Record("on_config_changed", EmptyStr, section, option,
                              <<>>, <<>>, "none", r.warned)
        /\ reloads' = IF section = "keybind" THEN reloads + 1 ELSE reloads
        /\ UNCHANGED <<_keystring, count>>

\* read_config() called again on the unchanged configuration
ReadConfig ==
    /\ reloads < MaxReloads
    /\ LET r == read_config(config, Tables) IN
       /\ _bindings' = r.b
       /\ _modifier_bindings' = r.m
       /\ last' = Record("read_config", EmptyStr, "keybind", "", <<>>, <<>>, "none", r.warned)
    /\ reloads' = reloads + 1
    /\ UNCHANGED <<_keystring, count, config>>

\* the command strings and counts handed to the dispatch policy directly
Submissions == {<<"open", NoCount>>, <<"scroll-top", 2>>}

\* a command string is handed to the dispatch policy directly
RunOrFill ==
    \E sub \in Submissions, ignore_exc \in BOOLEAN, outcome \in Outcomes :
        /\ LET r == _run_or_fill(sub[1], sub[2], ignore_exc, outcome) IN
           last' = Record("run_or_fill", EmptyStr, "", "", r.calls, r.emitted, r.error, 0)
        /\ UNCHANGED <<_keystring, count, _bindings, _modifier_bindings, config, reloads>>

Next ==
    \/ HandleSingleKey
    \/ HandleModifierKey
    \/ ConfigChanged
    \/ ReadConfig
    \/ RunOrFill

Spec == Init /\ [][Next]_vars

----------------------------------------------------------------------------
(* Properties *)

ReservedTexts == {<<":">>, <<"/">>, <<"?">>}

\* the keystring right after the key of the last keypress was appended
Appended == last.prevKeystring \o last.key

\* the last operation was a keypress whose text was appended to the keystring:
\* neither a count digit nor an intercepted reserved character
KeyAppended ==
    /\ last.op = "key"
    /\ last.key \notin {<<"1">>, <<"2">>}
    /\ ~(last.prevKeystring = EmptyStr /\ last.key \in ReservedTexts)

ExactCase == KeyAppended /\ Appended \in DOMAIN _bindings

PrefixCase ==
    /\ KeyAppended
    /\ Appended \notin DOMAIN _bindings
    /\ \E k \in DOMAIN _bindings : IsStrictPrefix(Appended, k)

DeadEndCase ==
    /\ KeyAppended
    /\ Appended \notin DOMAIN _bindings
    /\ ~\E k \in DOMAIN _bindings : IsStrictPrefix(Appended, k)

ChainTable ==
    [k \in {<<"g">>, <<"g", "g">>} |->
        IF k = <<"g">> THEN "scroll-top-partial" ELSE "scroll-top"]

\* the last two operations were the keypresses g, second, the first of them
\* arriving in Idle, with the plain table {g, gg}
C2_Sequence(second) ==
    /\ _bindings = ChainTable
    /\ last.op = "key" /\ last.key = second
    /\ last.prior.op = "key" /\ last.prior.key = <<"g">>
    /\ last.prior.prevKeystring = EmptyStr /\ last.prior.prevCount = NoCount

C3_PrefixWaits ==
    /\ PrefixCase =>
         /\ last.calls = <<>>
         /\ last.emitted = <<>>
         /\ last.error = "none"
         /\ _keystring = Appended
    /\ last.op \in {"read_config", "on_config_changed", "run_or_fill"} =>
         _keystring = last.prevKeystring

C3_Witness == PrefixCase /\ _keystring = Appended /\ Len(_keystring) > 0

C5_StartcharIntercepted ==
    (last.op = "key" /\ last.prevKeystring = EmptyStr /\ last.key \in ReservedTexts) =>
        /\ last.emitted = <<last.key>>
        /\ last.calls = <<>>
        /\ last.error = "none"
        /\ _keystring = EmptyStr

C5_Witness ==
    /\ last.op = "key" /\ last.prevKeystring = EmptyStr
    /\ last.key = <<":">>
    /\ last.key \in DOMAIN _bindings
    /\ last.emitted = <<last.key>>

\* C6: with a non-empty keystring, a reserved character is not intercepted: it
\* is not echoed to the status line, it is appended and matched like any other
\* key, so that a binding such as "g:" is completed and dispatched.
C6_StartcharInChain ==
    (last.op = "key" /\ last.prevKeystring # EmptyStr /\ last.key \in ReservedTexts) =>
        /\ \A i \in 1..Len(last.emitted) : last.emitted[i] # last.key
        /\ Appended \in DOMAIN _bindings =>
             Cmds(last.calls) = <<_bindings[Appended]>> /\ _keystring = EmptyStr
        /\ PrefixCase => last.calls = <<>> /\ _keystring = Appended
        /\ DeadEndCase => last.calls = <<>> /\ _keystring = EmptyStr

C6_Witness ==
    /\ last.op = "key"
    /\ last.prevKeystring = <<"g">> /\ last.key = <<":">>
    /\ Cmds(last.calls) = <<"open">>

\* C7: whenever the executor reports argument-count-mismatch for a command c,
\* whatever ignore_exc is, exactly one status-line text is emitted, ':' then c
\* then one space, and no error reaches the caller.
C7_ArgumentCountFills ==
    \A i \in 1..Len(last.calls) :
        last.calls[i].outcome = "argument-count-mismatch" =>
            /\ last.emitted = << <<":", last.calls[i].cmd, " ">> >>
            /\ last.error = "none"

C7_Witness ==
    /\ last.op = "run_or_fill"
    /\ Len(last.calls) = 1
    /\ last.calls[1].outcome = "argument-count-mismatch"
    /\ last.calls[1].ignore_exc
    /\ last.emitted = << <<":", "open", " ">> >>

\* C8: when the executor reports unknown-command, a silent dispatch
\* (ignore_exc true) emits nothing and surfaces no error, and a non-silent
\* dispatch (ignore_exc false) surfaces an error.
C8_UnknownCommand ==
    \A i \in 1..Len(last.calls) :
        last.calls[i].outcome = "unknown-command" =>
            /\ last.calls[i].ignore_exc => (last.emitted = <<>> /\ last.error = "none")
            /\ ~last.calls[i].ignore_exc => last.error # "none"

\* key-spec i of cfg is wrapped in the modifier delimiter
Delimited(cfg, i) ==
    LET key == cfg[i][1] IN Len(key) > 0 /\ key[1] = "@" /\ key[Len(key)] = "@"

\* the key under which the delimited key-spec i of cfg is stored
StoredKey(cfg, i) == _normalize_keystr(StripChars(cfg[i][1], {"@"}))

PlainKeys(cfg) == {cfg[i][1] : i \in {j \in 1..Len(cfg) : ~Delimited(cfg, j)}}
ModifierKeys(cfg) == {StoredKey(cfg, i) : i \in {j \in 1..Len(cfg) : Delimited(cfg, j)}}

\* C9: after any sequence of reloads the two tables hold exactly the bindings
\* of the most recent configuration.
C9_TablesAreLatestConfig ==
    /\ DOMAIN _bindings = PlainKeys(config)
    /\ DOMAIN _modifier_bindings = ModifierKeys(config)
    /\ \A i \in 1..Len(config) :
         ~Delimited(config, i) => _bindings[config[i][1]] = config[i][2]

\* the last operation reloaded the tables from config
Reloaded ==
    \/ last.op \in {"init", "read_config"}
    \/ last.op = "on_config_changed" /\ last.section = "keybind"

\* C10: a reload stores every delimited key-spec in the modifier table only,
\* under its stripped and normalized form, and every other key-spec in the
\* plain table only, verbatim: no other entry of either table is added or
\* changed by the reload.
C10_ReloadSplitsByDelimiter ==
    Reloaded =>
        /\ \A i \in 1..Len(config) :
             IF Delimited(config, i)
             THEN /\ StoredKey(config, i) \in DOMAIN _modifier_bindings
                  /\ \/ _modifier_bindings[StoredKey(config, i)] = config[i][2]
                     \/ \E j \in (i + 1)..Len(config) :
                          Delimited(config, j) /\ StoredKey(config, j) = StoredKey(config, i)
                  /\ config[i][1] \notin DOMAIN _bindings
             ELSE /\ config[i][1] \in DOMAIN _bindings
                  /\ _bindings[config[i][1]] = config[i][2]
        /\ \A k \in DOMAIN _bindings :
             \/ k \in PlainKeys(config)
             \/ k \in DOMAIN last.prevTables.b /\ _bindings[k] = last.prevTables.b[k]
        /\ \A k \in DOMAIN _modifier_bindings :
             \/ k \in ModifierKeys(config)
             \/ k \in DOMAIN last.prevTables.m /\ _modifier_bindings[k] = last.prevTables.m[k]

C10_Witness ==
    /\ last.op = "on_config_changed" /\ last.section = "keybind"
    /\ config = CfgMod
    /\ <<"g">> \in DOMAIN last.prevTables.b
    /\ _modifier_bindings[<<"C", "+", "a">>] = "scroll-top"

\* C11: a reload of an empty section warns exactly once and leaves both tables
\* empty (so that every later lookup misses until bindings are installed), and
\* no keypress raises the warning.
C11_EmptyReload ==
    /\ (Reloaded /\ config = <<>>) =>
         /\ last.warned = 1
         /\ _bindings = EmptyTable
         /\ _modifier_bindings = EmptyTable
    /\ last.op \in {"key", "modkey"} => last.warned = 0

\* C12: read_config run again on the configuration that was loaded last leaves
\* both tables as they were after the first load.
C12_ReloadIdempotent ==
    last.op = "read_config" => Tables = last.prevTables

C12_Witness ==
    /\ last.op = "read_config"
    /\ config = CfgMod
    /\ _modifier_bindings = last.prevTables.m
    /\ _modifier_bindings[<<"C", "+", "a">>] = "scroll-top"

\* C17: an executor failure other than unknown-command and
\* argument-count-mismatch reaches the caller unchanged, with no status-line
\* text.
C17_OtherFailurePropagates ==
    \A i \in 1..Len(last.calls) :
        last.calls[i].outcome = "other-failure" =>
            /\ last.error = "other-failure"
            /\ last.emitted = <<>>

C17_Witness ==
    /\ last.op = "key"
    /\ Len(last.calls) = 1
    /\ last.calls[1].outcome = "other-failure"
    /\ last.error = "other-failure"

\* C13: a configuration-changed notification reloads the tables from the
\* keybind section exactly when its section is 'keybind', whatever its option;
\* for any other section nothing is read (no warning), and both tables, the
\* keystring and the count stay as they were.
C13_ReloadOnlyForKeybind ==
    last.op = "on_config_changed" =>
        IF last.section = "keybind"
        THEN /\ Tables = RegisterAll(config, last.prevTables)
             /\ last.warned = (IF config = <<>> THEN 1 ELSE 0)
        ELSE /\ Tables = last.prevTables
             /\ last.warned = 0
             /\ _keystring = last.prevKeystring
             /\ count = last.prevCount

C13_Witness ==
    /\ last.op = "on_config_changed"
    /\ last.section = "keybind" /\ last.option = "auto_save"
    /\ Tables # last.prevTables
    /\ Tables = RegisterAll(config, last.prevTables)

\* the keys that the configurations of the model bind as plain key-specs and
\* as modifier key-specs
AllPlainKeys == UNION {PlainKeys(cfg) : cfg \in Configs}
AllModifierKeys == UNION {ModifierKeys(cfg) : cfg \in Configs}

\* C14: a plain keystring is looked up in the plain table only and a modifier
\* chord in the modifier table only, and the plain table holds only plain
\* key-specs and the modifier table only modifier key-specs: a chord never
\* dispatches the command of a plain key-spec with the same text, and a plain
\* keystring never dispatches the command of a modifier key-spec.
C14_TableSeparation ==
    /\ DOMAIN _bindings \subseteq AllPlainKeys
    /\ DOMAIN _modifier_bindings \subseteq AllModifierKeys
    /\ last.op = "key" =>
         \A i \in 1..Len(last.calls) :
             /\ Appended \in DOMAIN _bindings
             /\ last.calls[i].cmd = _bindings[Appended]
    /\ last.op = "modkey" =>
         /\ last.calls # <<>> <=> last.key \in DOMAIN _modifier_bindings
         /\ \A i \in 1..Len(last.calls) :
                last.calls[i].cmd = _modifier_bindings[last.key]

C14_Witness ==
    /\ last.op = "modkey"
    /\ last.key \in DOMAIN _bindings
    /\ last.key \notin DOMAIN _modifier_bindings
    /\ last.calls = <<>>

\* C15: every executor call made for a completed keychain is made with
\* ignore_exc true, and ignore_exc false is used only for a command string
\* handed to the dispatch policy directly.
C15_KeychainDispatchSilent ==
    \A i \in 1..Len(last.calls) :
        /\ last.op \in {"key", "modkey"} => last.calls[i].ignore_exc
        /\ ~last.calls[i].ignore_exc => last.op = "run_or_fill"

\* the keypress before the last one was appended and ended in a dead end
PriorDeadEnd ==
    /\ last.prior.op = "key"
    /\ last.prior.key \notin {<<"1">>, <<"2">>}
    /\ ~(last.prior.prevKeystring = EmptyStr /\ last.prior.key \in ReservedTexts)
    /\ last.prior.cmds = <<>>
    /\ last.prevKeystring = EmptyStr

PendingIsPrefix ==
    \/ _keystring = EmptyStr
    \/ /\ _keystring \notin DOMAIN _bindings
       /\ \E k \in DOMAIN _bindings : IsStrictPrefix(_keystring, k)

\* the last operation reloaded the tables after construction
ReloadStep ==
    \/ last.op = "read_config"
    \/ last.op = "on_config_changed" /\ last.section = "keybind"

ConfiguredCmd(cfg, key) ==
    LET i == CHOOSE j \in 1..Len(cfg) : cfg[j][1] = key IN cfg[i][2]

\* C19: a reload leaves the pending keystring and the pending count as they
\* were, and the keypress after it is matched, old keystring plus new key,
\* against the reloaded plain table: a key-spec of the new configuration
\* dispatches the command the new configuration binds to it.
C19_ReloadKeepsPending ==
    /\ ReloadStep => _keystring = last.prevKeystring /\ count = last.prevCount
    /\ (KeyAppended /\ last.prior.op = "reload") =>
         /\ Appended \in PlainKeys(config) =>
              /\ Cmds(last.calls) = <<ConfiguredCmd(config, Appended)>>
              /\ _keystring = EmptyStr
         /\ PrefixCase => _keystring = Appended /\ last.calls = <<>>
         /\ DeadEndCase => _keystring = EmptyStr /\ last.calls = <<>>

C19_Witness ==
    /\ KeyAppended /\ last.prior.op = "reload"
    /\ last.prevKeystring # EmptyStr
    /\ last.prevCount # NoCount
    /\ Appended \in PlainKeys(config)
    /\ Cmds(last.calls) = <<ConfiguredCmd(config, Appended)>>

\* the step was a keypress taken by the Startchar Interceptor
Intercepted ==
    /\ last.op = "key"
    /\ IsStartchar(last.prevKeystring, Strip(last.key))

\* C20: an intercepted reserved character changes nothing in the state of the
\* interpreter: keystring, pending count and both binding tables are what they
\* were before the keypress, and the executor is not called; a count that was
\* pending is still pending with the same value.
C20_InterceptChangesNothing ==
    Intercepted =>
        /\ _keystring = last.prevKeystring
        /\ count = last.prevCount
        /\ Tables = last.prevTables
        /\ last.calls = <<>>

C20_Witness ==
    /\ Intercepted
    /\ last.prevCount # NoCount
    /\ count = last.prevCount
    /\ last.emitted = <<Strip(last.key)>>

====
